---- MODULE Spec2Model ----
(***************************************************************************)
(* 06-analyze-logs.py: read logs.jsonl with pandas.read_json(lines=True),  *)
(* derive the output name with str.replace and write the frame with        *)
(* DataFrame.to_csv(index=False).                                          *)
(*                                                                         *)
(* Text is a sequence of one-character strings.  A JSON Lines file is a    *)
(* sequence of lines, a line a sequence of tokens: a whole object literal, *)
(* a comma, a run of whitespace, or text that fits no JSON grammar rule.   *)
(* A CSV file is a sequence of rows, a row a sequence of fields (the field *)
(* texts as csv.reader returns them).                                      *)
(***************************************************************************)
EXTENDS Integers, Sequences, FiniteSets, TLC

VARIABLES
    pc,           \* statement of the script about to run, or "done" / "failed"
    file_name,    \* module-level name file_name (line 18)
    df,           \* module-level name df (line 21), NoFrame until bound
    output_file,  \* module-level name output_file (line 22), NoPath until bound
    fs,           \* the working directory: path -> file content
    disk,         \* environment: "ok", "readonly" (open for write fails), "full" (write fails)
    stdout,       \* messages printed by the current run
    exit,         \* exit status of the current run: <<>> while it runs, then <<0>> or <<1>>
    trace,        \* statements executed by the current run, in order
    runs,         \* number of the current run of the script (1 or more)
    fsStart,      \* history: fs when the current run started
    fsPrev        \* history: fs when the previous run ended (fsStart of run 1 in run 1)

vars == <<pc, file_name, df, output_file, fs, disk, stdout, exit, trace, runs, fsStart, fsPrev>>

(***************************************************************************)
(* Bounds of the model.                                                    *)
(***************************************************************************)
MaxLines  == 2   \* lines of an input file
MaxTokens == 3   \* tokens of an input file of the run/rerun specification
MaxChunks == 2   \* pieces a file name of the path specification is built from
MaxRuns   == 2   \* consecutive runs of the script

(***************************************************************************)
(* Text helpers.                                                           *)
(***************************************************************************)
RECURSIVE Flatten(_)
Flatten(ss) ==
    IF ss = <<>> THEN <<>> ELSE Head(ss) \o Flatten(Tail(ss))

Range(s) == {s[i] : i \in DOMAIN s}

StartsWith(s, p) ==
    Len(p) <= Len(s) /\ SubSeq(s, 1, Len(p)) = p

EndsWith(s, p) ==
    Len(p) <= Len(s) /\ SubSeq(s, Len(s) - Len(p) + 1, Len(s)) = p

Digits == <<"0", "1", "2", "3", "4", "5", "6", "7", "8", "9">>

DigitVal(c) == (CHOOSE i \in DOMAIN Digits : Digits[i] = c) - 1

IsDigits(s) ==
    /\ s # <<>>
    /\ \A i \in DOMAIN s : s[i] \in Range(Digits)

\* int(s) / float(s) of a string of decimal digits: leading zeros are dropped
RECURSIVE ParseInt(_)
ParseInt(s) ==
    IF s = <<>> THEN 0
    ELSE 10 * ParseInt(SubSeq(s, 1, Len(s) - 1)) + DigitVal(s[Len(s)])

\* str(n) of a non-negative int
RECURSIVE IntToStr(_)
IntToStr(n) ==
    IF n < 10 THEN <<Digits[n + 1]>>
    ELSE IntToStr(n \div 10) \o <<Digits[(n % 10) + 1]>>

\* repr(x) of a float64 holding the integral value n, as to_csv writes it
FloatToStr(n) == IntToStr(n) \o <<".", "0">>

(***************************************************************************)
(* str.replace(old, new): every non-overlapping occurrence, left to right. *)
(***************************************************************************)
JSONL == <<".", "j", "s", "o", "n", "l">>
CSV   == <<".", "c", "s", "v">>

\* a slip in the pattern: nothing is found, the name comes back unchanged
replace_nothing(s, old, new) == s

RECURSIVE replace(_, _, _)
replace(s, old, new) ==
    IF s = <<>> THEN <<>>
    ELSE IF StartsWith(s, old)
         THEN new \o replace(SubSeq(s, Len(old) + 1, Len(s)), old, new)
         ELSE <<Head(s)>> \o replace(Tail(s), old, new)

(***************************************************************************)
(* JSON values, records and tokens.                                        *)
(***************************************************************************)
Val(k, n, s) == [k |-> k, n |-> n, s |-> s]

Null     == Val("null", 0, <<>>)           \* JSON null
JInt(n)  == Val("int", n, <<>>)            \* JSON integer
JStr(s)  == Val("str", 0, s)               \* JSON string
\* values a frame holds besides int and str
None     == Val("none", 0, <<>>)           \* Python None
NaN      == Val("nan", 0, <<>>)            \* float nan
Float(n) == Val("float", n, <<>>)          \* float64 with the integral value n

Field(key, val) == [key |-> key, val |-> val]

Obj(r) == [t |-> "obj", r |-> r]
COMMA  == [t |-> ",", r |-> <<>>]
WS     == [t |-> "ws", r |-> <<>>]
JUNK   == [t |-> "junk", r |-> <<>>]

Keys(r) == [i \in DOMAIN r |-> r[i].key]

HasKey(r, key) == \E i \in DOMAIN r : r[i].key = key

Get(r, key) == r[CHOOSE i \in DOMAIN r : r[i].key = key].val

(***************************************************************************)
(* pandas.read_json(path, lines=True) with its defaults (ujson engine,     *)
(* orient="columns", dtype=True, convert_axes=True).                       *)
(***************************************************************************)
Reverse(s) == [i \in 1..Len(s) |-> s[Len(s) + 1 - i]]

RECURSIVE lstrip(_)
lstrip(l) ==
    IF l # <<>> /\ Head(l) = WS THEN lstrip(Tail(l)) ELSE l

\* str.strip(): leading and trailing whitespace removed
strip(l) == Reverse(lstrip(Reverse(lstrip(l))))

\* ",".join(lines)
RECURSIVE join(_)
join(ls) ==
    IF ls = <<>> THEN <<>>
    ELSE IF Len(ls) = 1 THEN ls[1]
    ELSE ls[1] \o <<COMMA>> \o join(Tail(ls))

\* the stripped, non-empty lines joined by commas (the text between "[" and "]")
combine_lines(lines) ==
    join(SelectSeq([i \in DOMAIN lines |-> strip(lines[i])], LAMBDA l : l # <<>>))

\* ujson_loads of "[" text "]": objects separated by single commas, whitespace
\* between tokens skipped, anything else a ValueError
ujson_loads(text) ==
    LET t    == SelectSeq(text, LAMBDA x : x # WS)
        good == \/ t = <<>>
                \/ /\ Len(t) % 2 = 1
                   /\ \A i \in DOMAIN t :
                         IF i % 2 = 1 THEN t[i].t = "obj" ELSE t[i] = COMMA
    IN  [ok   |-> good,
         recs |-> IF good THEN [i \in 1..((Len(t) + 1) \div 2) |-> t[2 * i - 1].r]
                          ELSE <<>>]

Frame(columns, data, nrows) == [columns |-> columns, data |-> data, nrows |-> nrows]

NoFrame == Frame(<<>>, <<>>, 0 - 1)

\* keys of all records in order of first appearance
RECURSIVE fast_unique(_, _)
fast_unique(seq, acc) ==
    IF seq = <<>> THEN acc
    ELSE fast_unique(Tail(seq),
                     IF Head(seq) \in Range(acc) THEN acc ELSE Append(acc, Head(seq)))

\* the Python object a JSON value decodes to
Decode(v) == IF v.k = "null" THEN None ELSE v

\* dtype inference of one column of Python objects: all int -> int64; int with
\* None/nan only -> float64; anything else stays an object column
maybe_convert_objects(col) ==
    IF \A i \in DOMAIN col : col[i].k \in {"int", "none", "nan"}
    THEN IF \A i \in DOMAIN col : col[i].k = "int"
         THEN col
         ELSE [i \in DOMAIN col |->
                  IF col[i].k = "int" THEN Float(col[i].n) ELSE NaN]
    ELSE col

\* DataFrame(list of dicts): one row per record, a missing key is nan
DataFrame(recs) ==
    LET columns == fast_unique(Flatten([i \in DOMAIN recs |-> Keys(recs[i])]), <<>>)
        cell(r, key) == IF HasKey(r, key) THEN Decode(Get(r, key)) ELSE NaN
    IN  Frame([j \in DOMAIN columns |-> JStr(columns[j])],
              [j \in DOMAIN columns |->
                  maybe_convert_objects([i \in DOMAIN recs |-> cell(recs[i], columns[j])])],
              Len(recs))

\* float(x) succeeds
FloatOk(v) == v.k \in {"int", "float", "none", "nan"} \/ (v.k = "str" /\ IsDigits(v.s))

AsFloat(v) ==
    IF v.k = "int" THEN Float(v.n)
    ELSE IF v.k = "str" THEN Float(ParseInt(v.s))
    ELSE IF v.k = "none" THEN NaN
    ELSE v

\* _try_convert_data: an object column whose every element converts becomes
\* float64; a float64 column without nan and equal to its int64 cast becomes int64
try_convert_data(col) ==
    LET isobj == \E i \in DOMAIN col : col[i].k \in {"str", "none"}
        f     == IF isobj /\ (\A i \in DOMAIN col : FloatOk(col[i]))
                 THEN [i \in DOMAIN col |-> AsFloat(col[i])]
                 ELSE col
    IN  IF col # <<>> /\ (\A i \in DOMAIN f : f[i].k = "float")
        THEN [i \in DOMAIN f |-> JInt(f[i].n)]
        ELSE f

\* _convert_axes followed by _try_convert_types
convert(frame) ==
    Frame(try_convert_data(frame.columns),
          [j \in DOMAIN frame.data |-> try_convert_data(frame.data[j])],
          frame.nrows)

read_json(lines) ==
    LET parsed == ujson_loads(combine_lines(lines))
    IN  [ok |-> parsed.ok,
         df |-> IF parsed.ok THEN convert(DataFrame(parsed.recs)) ELSE NoFrame]

(***************************************************************************)
(* DataFrame.to_csv(path, index=False): the header row, then one row per   *)
(* frame row; nan and None are written as the empty field.                 *)
(***************************************************************************)
FieldText(v) ==
    IF v.k = "int" THEN IntToStr(v.n)
    ELSE IF v.k = "float" THEN FloatToStr(v.n)
    ELSE IF v.k = "str" THEN v.s
    ELSE <<>>

\* header=False: the column names are not written
csv_rows_noheader(frame) ==
    [i \in 1..frame.nrows |->
        [j \in DOMAIN frame.columns |-> FieldText(frame.data[j][i])]]

csv_rows(frame) ==
    <<[j \in DOMAIN frame.columns |-> FieldText(frame.columns[j])]>>
    \o [i \in 1..frame.nrows |->
           [j \in DOMAIN frame.columns |-> FieldText(frame.data[j][i])]]

(***************************************************************************)
(* The working directory.                                                  *)
(***************************************************************************)
File(kind, lines, rows) == [kind |-> kind, lines |-> lines, rows |-> rows]

Absent      == File("absent", <<>>, <<>>)      \* no file at the path
Jsonl(ls)   == File("jsonl", ls, <<>>)
CsvFile(rs) == File("csv", <<>>, rs)
OldFile     == CsvFile(<< << <<"o", "l", "d">> >> >>)   \* left by something else

NoPath == <<>>

\* file_name = 'logs.jsonl'
FileName == <<"l", "o", "g", "s">> \o JSONL

\* file_name.replace('.jsonl', '.csv')
OutputPath(name) == replace(name, JSONL, CSV)

Paths(name) == {name, OutputPath(name)}

(***************************************************************************)
(* Inputs.                                                                 *)
(***************************************************************************)
R1 == <<Field(<<"a">>, JInt(1))>>

CtlTokens == {Obj(R1), COMMA, WS, JUNK}

\* files of at most nl lines holding at most nt tokens in all
RECURSIVE FilesWith(_, _, _)
FilesWith(tokens, nl, nt) ==
    IF nl = 0 THEN {<<>>}
    ELSE {<<>>} \cup
         UNION {{<<l>> \o f : l \in [1..k -> tokens], f \in FilesWith(tokens, nl - 1, nt - k)}
                : k \in 0..nt}

CtlFiles == {Jsonl(f) : f \in FilesWith(CtlTokens, MaxLines, MaxTokens)} \cup {Absent}

TableKeys == {<<"a">>, <<"0", "1">>}
TableVals == {Null, JInt(1), JStr(<<"x">>), JStr(<<"0", "0", "7">>)}

\* JSON objects: fields with distinct keys, in any order
Records ==
    {<<>>}
    \cup {<<Field(k, v)>> : k \in TableKeys, v \in TableVals}
    \cup {<<Field(k1, v1), Field(k2, v2)>> :
            <<k1, k2>> \in {kk \in TableKeys \X TableKeys : kk[1] # kk[2]},
            <<v1, v2>> \in TableVals \X TableVals}

\* every line blank or one object
TableLines == {<<>>} \cup {<<Obj(r)>> : r \in Records}

TableFiles == {Jsonl(f) : f \in UNION {[1..n -> TableLines] : n \in 0..MaxLines}}

PathChunks == {<<"l", "o", "g", "s">>, JSONL, <<".", "j", "s", "o", "n">>, <<"l">>}

PathNames == {Flatten(cs) : cs \in UNION {[1..n -> PathChunks] : n \in 1..MaxChunks}}

PathFiles == {Jsonl(<<>>), Jsonl(<< <<Obj(R1)>> >>)}

(***************************************************************************)
(* The script, statement by statement.                                     *)
(***************************************************************************)
InitWith(names, inputs, outs, disks) ==
    /\ file_name \in names
    /\ disk \in disks
    /\ \E inp \in inputs, out \in outs :
          fs = [p \in Paths(file_name) |-> IF p = file_name THEN inp ELSE out]
    /\ pc = "print1"
    /\ df = NoFrame
    /\ output_file = NoPath
    /\ stdout = <<>>
    /\ exit = <<>>
    /\ trace = <<>>
    /\ runs = 1
    /\ fsStart = fs
    /\ fsPrev = fs

Init == InitWith({FileName}, CtlFiles, {Absent, OldFile}, {"ok", "readonly", "full"})

InitTable == InitWith({FileName}, TableFiles, {Absent}, {"ok"})

InitPath == InitWith(PathNames, PathFiles, {Absent}, {"ok"})

\* an uncaught exception: traceback on stderr, exit status 1, nothing else runs
Raise(step) ==
    /\ pc' = "failed"
    /\ exit' = <<1>>
    /\ trace' = Append(trace, step)

\* line 20
Print1 ==
    /\ pc = "print1"
    /\ stdout' = Append(stdout, "Converting")
    /\ trace' = Append(trace, "print1")
    /\ pc' = "read"
    /\ UNCHANGED <<file_name, df, output_file, fs, disk, exit, runs, fsStart, fsPrev>>

\* the read wrapped in try/except: on an error the script goes on with an empty frame
ReadJsonCaught ==
    /\ pc = "read"
    /\ LET f   == fs[file_name]
           res == read_json(f.lines)
       IN  df' = IF f.kind = "jsonl" /\ res.ok THEN res.df ELSE Frame(<<>>, <<>>, 0)
    /\ pc' = "replace"
    /\ trace' = Append(trace, "read")
    /\ UNCHANGED <<file_name, output_file, fs, disk, stdout, exit, runs, fsStart, fsPrev>>

\* a streaming conversion: the output is opened for writing before the input is parsed
ReadJsonStreaming ==
    /\ pc = "read"
    /\ fs' = [fs EXCEPT ![OutputPath(file_name)] = CsvFile(<<>>)]
    /\ LET f   == fs[file_name]
           res == read_json(f.lines)
       IN  IF f.kind = "jsonl" /\ res.ok
           THEN /\ df' = res.df
                /\ pc' = "replace"
                /\ trace' = Append(trace, "read")
                /\ UNCHANGED exit
           ELSE /\ Raise("read")
                /\ UNCHANGED df
    /\ UNCHANGED <<file_name, output_file, disk, stdout, runs, fsStart, fsPrev>>

\* line 21
ReadJson ==
    /\ pc = "read"
    /\ LET f   == fs[file_name]
           res == read_json(f.lines)
       IN  IF f.kind = "jsonl" /\ res.ok
           THEN /\ df' = res.df
                /\ pc' = "replace"
                /\ trace' = Append(trace, "read")
                /\ UNCHANGED exit
           ELSE /\ Raise("read")
                /\ UNCHANGED df
    /\ UNCHANGED <<file_name, output_file, fs, disk, stdout, runs, fsStart, fsPrev>>

\* line 22
Replace ==
    /\ pc = "replace"
    /\ output_file' = OutputPath(file_name)
    /\ trace' = Append(trace, "replace")
    /\ pc' = "open"
    /\ UNCHANGED <<file_name, df, fs, disk, stdout, exit, runs, fsStart, fsPrev>>

\* mode "a": an existing file is kept and written after
ToCsvOpenAppend ==
    /\ pc = "open"
    /\ IF disk = "readonly"
       THEN /\ Raise("open")
            /\ UNCHANGED fs
       ELSE /\ fs' = [fs EXCEPT ![output_file] = CsvFile(@.rows)]
            /\ pc' = "write"
            /\ trace' = Append(trace, "open")
            /\ UNCHANGED exit
    /\ UNCHANGED <<file_name, df, output_file, disk, stdout, runs, fsStart, fsPrev>>

\* line 23, first half: to_csv opens the path with mode "w"
ToCsvOpen ==
    /\ pc = "open"
    /\ IF disk = "readonly"
       THEN /\ Raise("open")
            /\ UNCHANGED fs
       ELSE /\ fs' = [fs EXCEPT ![output_file] = CsvFile(<<>>)]
            /\ pc' = "write"
            /\ trace' = Append(trace, "open")
            /\ UNCHANGED exit
    /\ UNCHANGED <<file_name, df, output_file, disk, stdout, runs, fsStart, fsPrev>>

\* line 23, second half: header and rows go to the open file, which is closed
ToCsvWrite ==
    /\ pc = "write"
    /\ IF disk = "full"
       THEN /\ Raise("write")
            /\ UNCHANGED fs
       ELSE /\ fs' = [fs EXCEPT ![output_file] = CsvFile(@.rows \o csv_rows(df))]
            /\ pc' = "print2"
            /\ trace' = Append(trace, "write")
            /\ UNCHANGED exit
    /\ UNCHANGED <<file_name, df, output_file, disk, stdout, runs, fsStart, fsPrev>>

\* line 24, then the end of the script
Print2 ==
    /\ pc = "print2"
    /\ stdout' = Append(stdout, "Conversion complete")
    /\ trace' = Append(trace, "print2")
    /\ pc' = "done"
    /\ exit' = <<0>>
    /\ UNCHANGED <<file_name, df, output_file, fs, disk, runs, fsStart, fsPrev>>

\* python 06-analyze-logs.py, once more, in the same directory
Rerun ==
    /\ pc \in {"done", "failed"}
    /\ runs < MaxRuns
    /\ runs' = runs + 1
    /\ pc' = "print1"
    /\ df' = NoFrame
    /\ output_file' = NoPath
    /\ stdout' = <<>>
    /\ exit' = <<>>
    /\ trace' = <<>>
    /\ fsStart' = fs
    /\ fsPrev' = fs
    /\ UNCHANGED <<file_name, fs, disk>>

Step == Print1 \/ ReadJson \/ Replace \/ ToCsvOpen \/ ToCsvWrite \/ Print2

Next == Step \/ Rerun

Spec == Init /\ [][Next]_vars

SpecTable == InitTable /\ [][Step]_vars

SpecPath == InitPath /\ [][Step]_vars

(***************************************************************************)
(* Vocabulary of the properties.                                           *)
(***************************************************************************)
InputLines == fsStart[file_name].lines

IsBlank(l) == \A i \in DOMAIN l : l[i] = WS

\* the line is one JSON object, possibly with whitespace around it
IsObjectLine(l) ==
    LET t == SelectSeq(l, LAMBDA x : x # WS)
    IN  Len(t) = 1 /\ t[1].t = "obj"

NonBlank(ls) == SelectSeq(ls, LAMBDA l : ~IsBlank(l))

AllValid(ls) == \A i \in DOMAIN ls : IsBlank(ls[i]) \/ IsObjectLine(ls[i])

\* the records of a file whose non-blank lines are all valid, in line order
RecordsOf(ls) ==
    LET nb == NonBlank(ls)
    IN  [i \in DOMAIN nb |-> SelectSeq(nb[i], LAMBDA x : x # WS)[1].r]

\* the union of the records' keys, each once, by position of first appearance
FirstAppearance(recs) ==
    LET all == Flatten([i \in DOMAIN recs |-> Keys(recs[i])])
        idx == {i \in DOMAIN all : \A j \in 1..(i - 1) : all[j] # all[i]}
    IN  [n \in 1..Cardinality(idx) |->
            all[CHOOSE i \in idx : Cardinality({j \in idx : j < i}) = n - 1]]

\* the text form of a JSON value; null has none and is the empty string
TextOf(v) ==
    IF v.k = "int" THEN IntToStr(v.n)
    ELSE IF v.k = "str" THEN v.s
    ELSE <<>>

Present(r, key) == HasKey(r, key) /\ Get(r, key) # Null

\* the write step has finished
Written == pc \in {"print2", "done"}

OutRows == fs[output_file].rows

ValidRun == Written /\ fsStart[file_name].kind = "jsonl" /\ AllValid(InputLines)

\* row is the row of record r under the columns keys: a field is filled exactly
\* where r has a non-null value, and a value that is no number is there verbatim
RowOf(row, r, keys) ==
    /\ Len(row) = Len(keys)
    /\ \A j \in DOMAIN keys :
         /\ (row[j] # <<>>) <=> Present(r, keys[j])
         /\ (Present(r, keys[j]) /\ Get(r, keys[j]).k = "str" /\ ~IsDigits(Get(r, keys[j]).s))
               => row[j] = Get(r, keys[j]).s

\* C1: when every non-blank input line is a JSON object, the CSV has one data
\* row per non-blank line, and the i-th data row is the row of the i-th such line.
C1_RowPerLine ==
    ValidRun =>
        LET recs == RecordsOf(InputLines)
            keys == FirstAppearance(recs)
        IN  /\ Len(OutRows) = Len(recs) + 1
            /\ \A i \in DOMAIN recs : RowOf(OutRows[i + 1], recs[i], keys)

C1_Witness ==
    /\ ValidRun
    /\ pc = "done"
    /\ \E i \in DOMAIN InputLines : IsBlank(InputLines[i])
    /\ \E i \in DOMAIN InputLines : Len(InputLines[i]) = 1 /\ Len(InputLines[i][1].r) = 2
    /\ Len(OutRows) = 2

\* C2: the header row lists the union of the keys of all records, each once, in
\* order of first appearance.
C2_HeaderIsKeyUnion ==
    ValidRun => OutRows[1] = FirstAppearance(RecordsOf(InputLines))

\* C3: a field is empty where the record has no key or null for the column, and
\* is the text form of the record's value everywhere else.
C3_CellsAreValueText ==
    ValidRun =>
        LET recs == RecordsOf(InputLines)
            keys == FirstAppearance(recs)
        IN  \A i \in DOMAIN recs :
              /\ Len(OutRows[i + 1]) = Len(keys)
              /\ \A j \in DOMAIN keys :
                   OutRows[i + 1][j] =
                       IF Present(recs[i], keys[j]) THEN TextOf(Get(recs[i], keys[j]))
                       ELSE <<>>

\* all records have the same set of keys
Uniform(recs) ==
    \A i, j \in DOMAIN recs : Range(Keys(recs[i])) = Range(Keys(recs[j]))

\* a CSV read back: the header gives the keys, every data row one record of texts
ReadBack(rows) ==
    [i \in 1..(Len(rows) - 1) |->
        [j \in DOMAIN rows[1] |-> Field(rows[1][j], rows[i + 1][j])]]

\* C4: for records with one common key set, reading the CSV back gives the
\* original records in order, each value replaced by its text form.
C4_RoundTrip ==
    (ValidRun /\ Uniform(RecordsOf(InputLines))) =>
        LET recs == RecordsOf(InputLines)
            back == ReadBack(OutRows)
        IN  /\ Len(back) = Len(recs)
            /\ \A i \in DOMAIN recs :
                 /\ Range(Keys(back[i])) = Range(Keys(recs[i]))
                 /\ \A key \in Range(Keys(recs[i])) :
                      HasKey(back[i], key) /\ Get(back[i], key) = TextOf(Get(recs[i], key))

Ended == pc \in {"done", "failed"}

OutPath == OutputPath(file_name)

\* C5: the second of two runs on the same unchanged input leaves the output
\* file exactly as the first run left it, whatever was there before the first.
C5_SecondRunSameOutput ==
    (runs >= 2 /\ Ended) => fs[OutPath] = fsPrev[OutPath]

C5_Witness ==
    /\ runs = 2
    /\ pc = "done"
    /\ Len(fs[OutPath].rows) >= 2
    /\ fs[OutPath] = fsPrev[OutPath]

\* C6: when some non-blank input line is not valid JSON, the run fails in the
\* read step and the output file stays as it was.
C6_InvalidLineFails ==
    (fsStart[file_name].kind = "jsonl" /\ ~AllValid(InputLines)) =>
        /\ pc \in {"print1", "read", "failed"}
        /\ fs[OutPath] = fsStart[OutPath]

Statements == <<"print1", "read", "replace", "open", "write", "print2">>

IsPrefix(s, t) == Len(s) <= Len(t) /\ SubSeq(t, 1, Len(s)) = s

\* C8: the run exits 0 exactly when the read and the write both succeeded; a
\* failing statement ends the run with a non-zero status, runs once, and no
\* later statement runs.
C8_ExitStatus ==
    /\ IsPrefix(trace, Statements)
    /\ (exit = <<>>) <=> ~Ended
    /\ (exit = <<0>>) <=> (pc = "done")
    /\ pc = "done" =>
         /\ trace = Statements
         /\ fsStart[file_name].kind = "jsonl"
         /\ disk = "ok"
         /\ df # NoFrame
         /\ fs[output_file] = CsvFile(csv_rows(df))
    /\ pc = "failed" =>
         /\ exit = <<1>>
         /\ trace # <<>>
         /\ trace[Len(trace)] \in {"read", "open", "write"}
         /\ "Conversion complete" \notin Range(stdout)
         /\ trace[Len(trace)] = "read" => (df = NoFrame /\ output_file = NoPath /\ fs = fsStart)
         /\ trace[Len(trace)] = "open" => fs = fsStart

C8_Witness ==
    /\ pc = "failed"
    /\ trace = <<"print1", "read", "replace", "open", "write">>
    /\ runs = 1

\* C9: the output file is not opened, truncated or written before the whole
\* input has been read and parsed, and "Conversion complete" is printed only
\* after the write has finished, never in a run that failed.
C9_ReadAllThenWriteAll ==
    /\ (fs[OutPath] # fsStart[OutPath] \/ "open" \in Range(trace)) =>
          /\ df # NoFrame
          /\ IsPrefix(<<"print1", "read", "replace", "open">>, trace)
    /\ "Conversion complete" \in Range(stdout) =>
          /\ pc = "done"
          /\ exit = <<0>>
          /\ "write" \in Range(trace)
          /\ fs[output_file] = CsvFile(csv_rows(df))

C9_Witness ==
    /\ pc = "done"
    /\ "Conversion complete" \in Range(stdout)
    /\ fs[OutPath] # fsStart[OutPath]
    /\ fsStart[OutPath] = OldFile

\* C10: no run changes logs.jsonl, and the output path of the script is never
\* its input path.
C10_InputUntouched ==
    /\ fs[file_name] = fsStart[file_name]
    /\ fsStart[file_name] = fsPrev[file_name]
    /\ output_file # NoPath => output_file # file_name

C10_Witness ==
    /\ runs = 2
    /\ pc = "done"
    /\ output_file # NoPath
    /\ fs[file_name].kind = "jsonl"
    /\ fs[file_name].lines # <<>>
    /\ fs[output_file].kind = "csv"

====
